---------------------------- MODULE Spec2Model ----------------------------
(***************************************************************************)
(* Model of ts2-sim-server: the standard routes manager (package routes,   *)
(* StandardManager.CanActivate / CanDeactivate), the route activation and  *)
(* deactivation effects on the track items, and the simulation clock       *)
(* (Simulation.Start / run / Pause).                                       *)
(***************************************************************************)
EXTENDS Integers, Sequences, FiniteSets, TLC

VARIABLES
    activeRoute,              \* trackStruct.activeRoute, per track item (Nil or a route ID)
    activeRoutePreviousItem,  \* trackStruct.activeRoutePreviousItem, per track item
    routeActive,              \* per route: has been activated and not deactivated since
    clockTicker,              \* Simulation.clockTicker: 0 (nil) or the ticker's identity
    stopChan,                 \* Simulation.stopChan: 0 (nil) or the channel's identity
    EventChan,                \* Simulation.EventChan: 0 (nil) or the channel's identity
    tickerOn,                 \* the ticker of clockTicker is running (not stopped)
    tickPending,              \* a tick waits in the ticker's channel C
    CurrentTime,              \* Simulation.Options.CurrentTime, in milliseconds
    startTime,                \* the value of CurrentTime when the simulation was loaded
    ticks,                    \* number of ticks the clock loop has processed
    runPc,                    \* position of each run() goroutine
    handoff,                  \* the hand-off goroutine of each processed tick
    ctlPc,                    \* position of the caller of Start and Pause
    pauseChan,                \* the channel a pending Pause call sends on
    starts,                   \* number of Start calls made
    pausedSince,              \* a Pause call has returned and Start was not called since
    consChan,                 \* the channel the consumer receives from (0: none yet)
    observed,                 \* the time values the consumer has read, in order of receipt
    closedChans,              \* the channels that have been closed
    consLive,                 \* the consumer obtained its channel from a running clock
    lastCall,                 \* the last direct call of CanActivate: its route and result
    nextActiveRoute,          \* SignalItem.nextActiveRoute, per signal (Nil or a route ID)
    previousActiveRoute,      \* SignalItem.previousActiveRoute, per signal
    activeAspect,             \* SignalItem.activeAspect, per signal (Nil or an aspect name)
    sigOp,                    \* the last operation on a signal's route state
    actions,                  \* SignalAspect.Actions of the aspect under test
    called,                   \* MeansProceed has been called on it
    proceed                   \* the value the call returned

routeVars == <<activeRoute, activeRoutePreviousItem, routeActive>>

clockVars == <<clockTicker, stopChan, EventChan, tickerOn, tickPending, CurrentTime,
               startTime, ticks, runPc, handoff, ctlPc, pauseChan, starts,
               pausedSince, consChan, observed>>

queryVars == <<lastCall>>

signalVars == <<nextActiveRoute, previousActiveRoute, activeAspect, sigOp>>

aspectVars == <<actions, called, proceed>>

\* what the steps of the clock leave alone
clockFrame == <<routeVars, closedChans, consLive, queryVars, signalVars, aspectVars>>

\* what the consumer's read of the event channel leaves alone
attachFrame == <<routeVars, closedChans, queryVars, signalVars, aspectVars>>

\* what the steps of the routes leave alone
routeFrame == <<clockVars, closedChans, consLive, queryVars, signalVars, aspectVars>>

\* what a call of CanActivate leaves alone besides the track items and routes
queryFrame == <<clockVars, closedChans, consLive, signalVars, aspectVars>>

\* what the operations on a signal's route state leave alone
signalFrame == <<routeActive, clockVars, closedChans, consLive, queryVars, aspectVars>>

\* what a call of MeansProceed leaves alone
aspectFrame == <<routeVars, clockVars, closedChans, consLive, queryVars, signalVars>>

vars == <<activeRoute, activeRoutePreviousItem, routeActive,
          clockTicker, stopChan, EventChan, tickerOn, tickPending, CurrentTime,
          startTime, ticks, runPc, handoff, ctlPc, pauseChan, starts,
          pausedSince, consChan, observed, closedChans, consLive, lastCall,
          nextActiveRoute, previousActiveRoute, activeAspect, sigOp,
          actions, called, proceed>>

Nil == "nil"

(***************************************************************************)
(* The track layout (the data a simulation file supplies).                 *)
(*                                                                         *)
(*   WE - SG< - SA> - L1 - SB> - L2 - SF< - SC> - P =+= SD> - EE           *)
(*                                                    += SE> - EF           *)
(*   XW - SH> - X - SJ> - XE          (X crosses L2: conflict items)       *)
(*                                                                         *)
(* S?> is a signal for eastbound trains, S?< for westbound trains, P a     *)
(* points item.  Routes R1..R5 and R7 are eastbound, R6 is westbound; R5   *)
(* (SA to SC) runs through the signal SB, at which R1 ends and R2 begins;  *)
(* R3 and R4 leave SC over the two branches of the points.                 *)
(***************************************************************************)
Signals == {"SG", "SA", "SB", "SF", "SC", "SD", "SE", "SH", "SJ"}

Items == Signals \cup {"L1", "L2", "P", "X"}

\* TrackItem.Type()
Type(ti) ==
    IF ti \in Signals THEN "Signal"
    ELSE IF ti = "P" THEN "Points"
    ELSE "Line"

\* TrackItem.ConflictItem(): symmetric by construction
ConflictItem(ti) ==
    IF ti = "L2" THEN "X"
    ELSE IF ti = "X" THEN "L2"
    ELSE Nil

Pos(ti, prev) == [ti |-> ti, prev |-> prev]

\* Route.Positions: from the begin signal to the end signal, each item with
\* the item it is entered from.
Positions(r) ==
    CASE r = "R1" -> <<Pos("SA", "SG"), Pos("L1", "SA"), Pos("SB", "L1")>>
      [] r = "R2" -> <<Pos("SB", "L1"), Pos("L2", "SB"), Pos("SF", "L2"), Pos("SC", "SF")>>
      [] r = "R3" -> <<Pos("SC", "SF"), Pos("P", "SC"), Pos("SD", "P")>>
      [] r = "R4" -> <<Pos("SC", "SF"), Pos("P", "SC"), Pos("SE", "P")>>
      [] r = "R5" -> <<Pos("SA", "SG"), Pos("L1", "SA"), Pos("SB", "L1"),
                       Pos("L2", "SB"), Pos("SF", "L2"), Pos("SC", "SF")>>
      [] r = "R6" -> <<Pos("SF", "SC"), Pos("L2", "SF"), Pos("SB", "L2"),
                       Pos("L1", "SB"), Pos("SA", "L1"), Pos("SG", "SA")>>
      [] r = "R7" -> <<Pos("SH", "XW"), Pos("X", "SH"), Pos("SJ", "X")>>

Routes == {"R1", "R2", "R3", "R4", "R5", "R6", "R7"}

\* Route.BeginSignalId / Route.EndSignalId
BeginSignalId(r) == Positions(r)[1].ti

EndSignalId(r) == Positions(r)[Len(Positions(r))].ti

RouteItems(r) == {Positions(r)[i].ti : i \in 1..Len(Positions(r))}

\* the item from which route r enters item ti
EntryOf(r, ti) ==
    Positions(r)[CHOOSE i \in 1..Len(Positions(r)) : Positions(r)[i].ti = ti].prev

IsBoundary(r, ti) == ti = BeginSignalId(r) \/ ti = EndSignalId(r)

BodyItems(r) == {ti \in RouteItems(r) : ~IsBoundary(r, ti)}

\* CanActivateFrom without the check of an occupied points item met first
RECURSIVE CanActivateFrom_NoPointsCheck(_, _, _)
CanActivateFrom_NoPointsCheck(r, i, flag) ==
    IF i > Len(Positions(r)) THEN TRUE
    ELSE LET pos == Positions(r)[i]
             ti  == pos.ti
         IN  IF ti = BeginSignalId(r) \/ ti = EndSignalId(r)
                 THEN CanActivateFrom_NoPointsCheck(r, i + 1, flag)
             ELSE IF ConflictItem(ti) # Nil /\ activeRoute[ConflictItem(ti)] # Nil
                 THEN FALSE
             ELSE IF activeRoute[ti] = Nil
                 THEN (IF flag THEN FALSE
                       ELSE CanActivateFrom_NoPointsCheck(r, i + 1, flag))
             ELSE IF pos.prev # activeRoutePreviousItem[ti]
                 THEN FALSE
             ELSE IF activeRoute[ti] = r
                 THEN TRUE
             ELSE CanActivateFrom_NoPointsCheck(r, i + 1, TRUE)

(***************************************************************************)
(* StandardManager.CanActivate: the walk over r.Positions from position i  *)
(* with the current value of the local variable flag.                      *)
(***************************************************************************)
RECURSIVE CanActivateFrom(_, _, _)
CanActivateFrom(r, i, flag) ==
    IF i > Len(Positions(r)) THEN TRUE
    ELSE LET pos == Positions(r)[i]
             ti  == pos.ti
         IN  IF ti = BeginSignalId(r) \/ ti = EndSignalId(r)
                 THEN CanActivateFrom(r, i + 1, flag)
             ELSE IF ConflictItem(ti) # Nil /\ activeRoute[ConflictItem(ti)] # Nil
                 THEN FALSE
             ELSE IF activeRoute[ti] = Nil
                 THEN (IF flag THEN FALSE ELSE CanActivateFrom(r, i + 1, flag))
             ELSE IF Type(ti) = "Points" /\ ~flag
                 THEN FALSE
             ELSE IF pos.prev # activeRoutePreviousItem[ti]
                 THEN FALSE
             ELSE IF activeRoute[ti] = r
                 THEN TRUE
             ELSE CanActivateFrom(r, i + 1, TRUE)

CanActivate(r) == CanActivateFrom(r, 1, FALSE)

\* a direct call of StandardManager.CanActivate: it reads the track items and
\* returns; the result is recorded
CanActivateCall(r) ==
    /\ lastCall' = [route |-> r, ok |-> CanActivate(r)]
    /\ UNCHANGED routeVars

\* CanDeactivate allowing only the routes that are active
CanDeactivate_OnlyActive(r) == routeActive[r]

\* StandardManager.CanDeactivate
CanDeactivate(r) == TRUE

(***************************************************************************)
(* Route activation: after a true CanActivate, setActiveRoute(r, previous) *)
(* on the item of every position, and the route is marked active.          *)
(***************************************************************************)
Activate(r) ==
    /\ CanActivate(r)
    /\ activeRoute' = [ti \in Items |->
            IF ti \in RouteItems(r) THEN r ELSE activeRoute[ti]]
    /\ activeRoutePreviousItem' = [ti \in Items |->
            IF ti \in RouteItems(r) THEN EntryOf(r, ti)
            ELSE activeRoutePreviousItem[ti]]
    /\ routeActive' = [routeActive EXCEPT ![r] = TRUE]

\* Deactivate resetting every item of the route, whichever route it holds
Deactivate_ResetsEveryItem(r) ==
    /\ CanDeactivate(r)
    /\ activeRoute' = [ti \in Items |->
            IF ti \in RouteItems(r) THEN Nil ELSE activeRoute[ti]]
    /\ activeRoutePreviousItem' = [ti \in Items |->
            IF ti \in RouteItems(r) THEN Nil ELSE activeRoutePreviousItem[ti]]
    /\ routeActive' = [routeActive EXCEPT ![r] = FALSE]

(***************************************************************************)
(* Route deactivation: after a true CanDeactivate, the active route of     *)
(* every position's item is reset only if it still refers to this route,   *)
(* and the route is marked inactive.                                       *)
(***************************************************************************)
Deactivate(r) ==
    /\ CanDeactivate(r)
    /\ activeRoute' = [ti \in Items |->
            IF ti \in RouteItems(r) /\ activeRoute[ti] = r THEN Nil
            ELSE activeRoute[ti]]
    /\ activeRoutePreviousItem' = [ti \in Items |->
            IF ti \in RouteItems(r) /\ activeRoute[ti] = r THEN Nil
            ELSE activeRoutePreviousItem[ti]]
    /\ routeActive' = [routeActive EXCEPT ![r] = FALSE]

(***************************************************************************)
(* The simulation clock.                                                   *)
(***************************************************************************)
TIME_STEP == 500

\* bounds of the model
MaxStarts == 2

MaxTicks == 2

\* the value of Options.CurrentTime the simulation is loaded with (06:00:00)
StartTimes == {21600000}

Loops == 1..MaxStarts

TickIds == 1..MaxTicks

\* a run() goroutine is in its select statement
Running == \E k \in Loops : runPc[k] = "select"

\* StartBegin without the test sim.clockTicker == nil
StartBegin_NoNilCheck ==
    /\ ctlPc = "idle"
    /\ starts < MaxStarts
    /\ starts' = starts + 1
    /\ pausedSince' = FALSE
    /\ clockTicker' = starts + 1
    /\ tickerOn' = TRUE
    /\ tickPending' = FALSE
    /\ stopChan' = starts + 1
    /\ ctlPc' = "starting"
    /\ UNCHANGED <<EventChan, CurrentTime, startTime, ticks, runPc, handoff,
                   pauseChan, consChan, observed>>

(***************************************************************************)
(* Simulation.Start, up to the creation of the stop channel.  When the     *)
(* ticker is not nil the call returns without any effect.                  *)
(***************************************************************************)
StartBegin ==
    /\ ctlPc = "idle"
    /\ starts < MaxStarts
    /\ starts' = starts + 1
    /\ pausedSince' = FALSE
    /\ IF clockTicker = 0
          THEN /\ clockTicker' = starts + 1
               /\ tickerOn' = TRUE
               /\ tickPending' = FALSE
               /\ stopChan' = starts + 1
               /\ ctlPc' = "starting"
          ELSE UNCHANGED <<clockTicker, tickerOn, tickPending, stopChan, ctlPc>>
    /\ UNCHANGED <<EventChan, CurrentTime, startTime, ticks, runPc, handoff,
                   pauseChan, consChan, observed>>

\* Simulation.Start: sim.EventChan = make(chan *Event); go sim.run()
StartFinish ==
    /\ ctlPc = "starting"
    /\ EventChan' = stopChan
    /\ runPc' = [runPc EXCEPT ![stopChan] = "select"]
    /\ ctlPc' = "idle"
    /\ UNCHANGED <<clockTicker, stopChan, tickerOn, tickPending, CurrentTime,
                   startTime, ticks, handoff, pauseChan, starts, pausedSince,
                   consChan, observed>>

\* Simulation.Pause: the send on sim.stopChan begins; it blocks until a
\* run() goroutine receives from that channel (forever on a nil channel).
PauseCall ==
    /\ ctlPc = "idle"
    /\ ctlPc' = "pausing"
    /\ pauseChan' = stopChan
    /\ UNCHANGED <<clockTicker, stopChan, EventChan, tickerOn, tickPending,
                   CurrentTime, startTime, ticks, runPc, handoff, starts,
                   pausedSince, consChan, observed>>

\* the running time.Ticker delivers a tick into its channel C (capacity 1)
TickerFire ==
    /\ tickerOn
    /\ ~tickPending
    /\ ticks < MaxTicks
    /\ tickPending' = TRUE
    /\ UNCHANGED <<clockTicker, stopChan, EventChan, tickerOn, CurrentTime,
                   startTime, ticks, runPc, handoff, ctlPc, pauseChan, starts,
                   pausedSince, consChan, observed>>

\* RunTick with the event sent by the loop itself: the tick is taken only when
\* no earlier event waits for the consumer
RunTick_SendsInLoop(k) ==
    /\ runPc[k] = "select"
    /\ clockTicker # 0
    /\ tickPending
    /\ \A n \in 1..MaxTicks : handoff[n].st \in {"none", "delivered"}
    /\ tickPending' = FALSE
    /\ CurrentTime' = CurrentTime + TIME_STEP
    /\ ticks' = ticks + 1
    /\ handoff' = [handoff EXCEPT ![ticks + 1] = [st |-> "spawned", ch |-> 0]]
    /\ UNCHANGED <<clockTicker, stopChan, EventChan, tickerOn, startTime, runPc,
                   ctlPc, pauseChan, starts, pausedSince, consChan, observed>>

\* RunTick with the result of CurrentTime.Add(TIME_STEP) not stored
RunTick_SumNotStored(k) ==
    /\ runPc[k] = "select"
    /\ clockTicker # 0
    /\ tickPending
    /\ tickPending' = FALSE
    /\ CurrentTime' = CurrentTime
    /\ ticks' = ticks + 1
    /\ handoff' = [handoff EXCEPT ![ticks + 1] = [st |-> "spawned", ch |-> 0]]
    /\ UNCHANGED <<clockTicker, stopChan, EventChan, tickerOn, startTime, runPc,
                   ctlPc, pauseChan, starts, pausedSince, consChan, observed>>

\* run(): case <-sim.clockTicker.C: CurrentTime advances by TIME_STEP and a
\* goroutine is spawned for the hand-off of the clock event.
RunTick(k) ==
    /\ runPc[k] = "select"
    /\ clockTicker # 0
    /\ tickPending
    /\ tickPending' = FALSE
    /\ CurrentTime' = CurrentTime + TIME_STEP
    /\ ticks' = ticks + 1
    /\ handoff' = [handoff EXCEPT ![ticks + 1] = [st |-> "spawned", ch |-> 0]]
    /\ UNCHANGED <<clockTicker, stopChan, EventChan, tickerOn, startTime, runPc,
                   ctlPc, pauseChan, starts, pausedSince, consChan, observed>>

\* RunStop with the loop going on after the stop request (no return)
RunStop_NoReturn(k) ==
    /\ runPc[k] = "select"
    /\ ctlPc = "pausing"
    /\ stopChan # 0
    /\ pauseChan = stopChan
    /\ ctlPc' = "idle"
    /\ pausedSince' = TRUE
    /\ UNCHANGED <<clockTicker, stopChan, EventChan, tickerOn, tickPending,
                   CurrentTime, startTime, ticks, runPc, handoff, pauseChan,
                   starts, consChan, observed>>

\* run(): case <-sim.stopChan: the receive completes the pending Pause call,
\* which returns.
RunStop(k) ==
    /\ runPc[k] = "select"
    /\ ctlPc = "pausing"
    /\ stopChan # 0
    /\ pauseChan = stopChan
    /\ runPc' = [runPc EXCEPT ![k] = "stopping"]
    /\ ctlPc' = "idle"
    /\ pausedSince' = TRUE
    /\ UNCHANGED <<clockTicker, stopChan, EventChan, tickerOn, tickPending,
                   CurrentTime, startTime, ticks, handoff, pauseChan, starts,
                   consChan, observed>>

\* run(), stop branch: sim.clockTicker.Stop(); sim.clockTicker = nil
RunTeardownTicker(k) ==
    /\ runPc[k] = "stopping"
    /\ tickerOn' = FALSE
    /\ clockTicker' = 0
    /\ runPc' = [runPc EXCEPT ![k] = "clearing"]
    /\ UNCHANGED <<stopChan, EventChan, tickPending, CurrentTime, startTime,
                   ticks, handoff, ctlPc, pauseChan, starts, pausedSince,
                   consChan, observed>>

\* run(), stop branch: sim.EventChan = nil; return
RunTeardownChan(k) ==
    /\ runPc[k] = "clearing"
    /\ EventChan' = 0
    /\ runPc' = [runPc EXCEPT ![k] = "done"]
    /\ UNCHANGED <<clockTicker, stopChan, tickerOn, tickPending, CurrentTime,
                   startTime, ticks, handoff, ctlPc, pauseChan, starts,
                   pausedSince, consChan, observed>>

\* the hand-off goroutine of tick n starts its send: it reads sim.EventChan
\* (a send on a nil channel blocks forever) and holds &sim.Options.CurrentTime
HandoffEval(n) ==
    /\ handoff[n].st = "spawned"
    /\ handoff' = [handoff EXCEPT ![n] = [st |-> "sending", ch |-> EventChan]]
    /\ UNCHANGED <<clockTicker, stopChan, EventChan, tickerOn, tickPending,
                   CurrentTime, startTime, ticks, runPc, ctlPc, pauseChan,
                   starts, pausedSince, consChan, observed>>

\* the send of tick n's event completes: the consumer receives it from the
\* channel it drains and reads the time through the event's pointer
ConsumerReceive(n) ==
    /\ handoff[n].st = "sending"
    /\ handoff[n].ch # 0
    /\ handoff[n].ch = consChan
    /\ handoff' = [handoff EXCEPT ![n].st = "delivered"]
    /\ observed' = Append(observed, CurrentTime)
    /\ UNCHANGED <<clockTicker, stopChan, EventChan, tickerOn, tickPending,
                   CurrentTime, startTime, ticks, runPc, ctlPc, pauseChan,
                   starts, pausedSince, consChan>>

\* the consumer reads sim.EventChan to receive from it
ConsumerAttach ==
    /\ EventChan # 0
    /\ consChan # EventChan
    /\ consChan' = EventChan
    /\ consLive' = (runPc[EventChan] = "select")
    /\ UNCHANGED <<clockTicker, stopChan, EventChan, tickerOn, tickPending,
                   CurrentTime, startTime, ticks, runPc, handoff, ctlPc,
                   pauseChan, starts, pausedSince, observed>>

ClockInit ==
    /\ clockTicker = 0
    /\ stopChan = 0
    /\ EventChan = 0
    /\ tickerOn = FALSE
    /\ tickPending = FALSE
    /\ startTime \in StartTimes
    /\ CurrentTime = startTime
    /\ ticks = 0
    /\ runPc = [k \in Loops |-> "none"]
    /\ handoff = [n \in TickIds |-> [st |-> "none", ch |-> 0]]
    /\ ctlPc = "idle"
    /\ pauseChan = 0
    /\ starts = 0
    /\ pausedSince = FALSE
    /\ consChan = 0
    /\ observed = <<>>
    /\ closedChans = {}
    /\ consLive = FALSE

RouteInit ==
    /\ activeRoute = [ti \in Items |-> Nil]
    /\ activeRoutePreviousItem = [ti \in Items |-> Nil]
    /\ routeActive = [r \in Routes |-> FALSE]
    /\ lastCall = [route |-> Nil, ok |-> FALSE]

(***************************************************************************)
(* Signals.  SignalItems are the signals whose route fields are followed:  *)
(* SB, where R1 ends, R2 begins and R5 and R6 run through, and SC, where   *)
(* R2 and R5 end and R3 and R4 begin.                                      *)
(***************************************************************************)
SignalItems == {"SB", "SC"}

NoOp == [op |-> "none", si |-> Nil, mismatch |-> FALSE]

\* the fields of a loaded SignalItem: the three unexported fields are not
\* read from the simulation file and hold their zero value
SignalInit ==
    /\ nextActiveRoute = [si \in SignalItems |-> Nil]
    /\ previousActiveRoute = [si \in SignalItems |-> Nil]
    /\ activeAspect = [si \in SignalItems |-> Nil]
    /\ sigOp = NoOp

\* SignalItem.updateSignalState: the body is empty
updateSignalState(si) == UNCHANGED activeAspect

\* SignalItem.setActiveRoute(r, previous), for a route r through the signal
SignalSetActiveRoute(si, r) ==
    /\ si \in RouteItems(r)
    /\ activeRoute' = [activeRoute EXCEPT ![si] = r]
    /\ activeRoutePreviousItem' = [activeRoutePreviousItem EXCEPT ![si] = EntryOf(r, si)]
    /\ updateSignalState(si)
    /\ sigOp' = [op |-> "setActiveRoute", si |-> si, mismatch |-> FALSE]
    /\ UNCHANGED <<nextActiveRoute, previousActiveRoute>>

\* Route activation records the route at its two signals: it becomes the
\* next active route of its begin signal and the previous active route of
\* its end signal.
SetSignalRoutes(r) ==
    /\ BeginSignalId(r) \in SignalItems \/ EndSignalId(r) \in SignalItems
    /\ nextActiveRoute' =
           [si \in SignalItems |->
               IF si = BeginSignalId(r) THEN r ELSE nextActiveRoute[si]]
    /\ previousActiveRoute' =
           [si \in SignalItems |->
               IF si = EndSignalId(r) THEN r ELSE previousActiveRoute[si]]
    /\ sigOp' = NoOp
    /\ UNCHANGED <<activeRoute, activeRoutePreviousItem, activeAspect>>

\* resetNextActiveRoute without the test of the route
ResetNextActiveRoute_Unconditional(si, r) ==
    /\ nextActiveRoute' = [nextActiveRoute EXCEPT ![si] = Nil]
    /\ updateSignalState(si)
    /\ sigOp' = [op |-> "resetNext", si |-> si,
                 mismatch |-> /\ r # Nil
                              /\ nextActiveRoute[si] # Nil
                              /\ nextActiveRoute[si] # r]
    /\ UNCHANGED <<activeRoute, activeRoutePreviousItem, previousActiveRoute>>

\* SignalItem.resetNextActiveRoute(r), r a route or nil
ResetNextActiveRoute(si, r) ==
    IF r # Nil /\ nextActiveRoute[si] # Nil /\ nextActiveRoute[si] # r
    THEN /\ sigOp' = [op |-> "resetNext", si |-> si, mismatch |-> TRUE]
         /\ UNCHANGED <<activeRoute, activeRoutePreviousItem, nextActiveRoute,
                        previousActiveRoute, activeAspect>>
    ELSE /\ nextActiveRoute' = [nextActiveRoute EXCEPT ![si] = Nil]
         /\ updateSignalState(si)
         /\ sigOp' = [op |-> "resetNext", si |-> si, mismatch |-> FALSE]
         /\ UNCHANGED <<activeRoute, activeRoutePreviousItem, previousActiveRoute>>

\* SignalItem.resetPreviousActiveRoute(r), r a route or nil
ResetPreviousActiveRoute(si, r) ==
    IF r # Nil /\ previousActiveRoute[si] # Nil /\ previousActiveRoute[si] # r
    THEN /\ sigOp' = [op |-> "resetPrevious", si |-> si, mismatch |-> TRUE]
         /\ UNCHANGED <<activeRoute, activeRoutePreviousItem, nextActiveRoute,
                        previousActiveRoute, activeAspect>>
    ELSE /\ previousActiveRoute' = [previousActiveRoute EXCEPT ![si] = Nil]
         /\ updateSignalState(si)
         /\ sigOp' = [op |-> "resetPrevious", si |-> si, mismatch |-> FALSE]
         /\ UNCHANGED <<activeRoute, activeRoutePreviousItem, nextActiveRoute>>

(***************************************************************************)
(* Signal aspects.  A SignalAction is its Target and its Speed (Duration   *)
(* is not read by MeansProceed); speeds are whole numbers here, of either  *)
(* sign and zero.                                                          *)
(***************************************************************************)
ASAP == 0
BeforeThisSignal == 1
BeforeNextSignal == 2

MaxActions == 2

Targets == {ASAP, BeforeThisSignal, BeforeNextSignal}

Speeds == {0 - 30, 0, 80}

SignalActions == [Target : Targets, Speed : Speeds]

ActionLists == UNION {[1..n -> SignalActions] : n \in 0..MaxActions}

\* MeansProceed deciding on any action of the list
MeansProceed_AnyAction(sa) ==
    \/ Len(sa) = 0
    \/ \E i \in 1..Len(sa) : sa[i].Speed # 0 \/ sa[i].Target = BeforeNextSignal

\* SignalAspect.MeansProceed, sa the Actions of the aspect
MeansProceed(sa) ==
    IF Len(sa) = 0 THEN TRUE
    ELSE IF sa[1].Speed # 0 THEN TRUE
    ELSE IF sa[1].Target = BeforeNextSignal THEN TRUE
    ELSE FALSE

MeansProceedCall ==
    /\ ~called
    /\ called' = TRUE
    /\ proceed' = MeansProceed(actions)
    /\ UNCHANGED actions

\* no aspect is under test
AspectIdle ==
    /\ actions = <<>>
    /\ called = FALSE
    /\ proceed = FALSE

\* an aspect with any list of actions is under test
AspectUnderTest ==
    /\ actions \in ActionLists
    /\ called = FALSE
    /\ proceed = FALSE

Init == RouteInit /\ ClockInit /\ SignalInit /\ AspectIdle

AspectInit == RouteInit /\ ClockInit /\ SignalInit /\ AspectUnderTest

(***************************************************************************)
(* Spec: route activations and deactivations on the track layout.          *)
(***************************************************************************)
Next ==
    \/ \E r \in Routes : Activate(r) /\ UNCHANGED routeFrame
    \/ \E r \in Routes : Deactivate(r) /\ UNCHANGED routeFrame

Spec == Init /\ [][Next]_vars

(***************************************************************************)
(* PolicySpec: Spec with direct calls of CanActivate for any route in any  *)
(* state the activations and deactivations reach.                          *)
(***************************************************************************)
PolicyNext ==
    \/ Next
    \/ \E r \in Routes : CanActivateCall(r) /\ UNCHANGED queryFrame

PolicySpec == Init /\ [][PolicyNext]_vars

(***************************************************************************)
(* SignalSpec: the operations on the route state of the signals, with any  *)
(* route and in any order.                                                 *)
(***************************************************************************)
SignalNext ==
    \/ \E si \in SignalItems, r \in Routes :
           SignalSetActiveRoute(si, r) /\ UNCHANGED signalFrame
    \/ \E r \in Routes : SetSignalRoutes(r) /\ UNCHANGED signalFrame
    \/ \E si \in SignalItems, r \in Routes \cup {Nil} :
           ResetNextActiveRoute(si, r) /\ UNCHANGED signalFrame
    \/ \E si \in SignalItems, r \in Routes \cup {Nil} :
           ResetPreviousActiveRoute(si, r) /\ UNCHANGED signalFrame

SignalSpec == Init /\ [][SignalNext]_vars

(***************************************************************************)
(* AspectSpec: MeansProceed called on an aspect with any list of up to     *)
(* MaxActions actions.                                                     *)
(***************************************************************************)
AspectNext == MeansProceedCall /\ UNCHANGED aspectFrame

AspectSpec == AspectInit /\ [][AspectNext]_vars

(***************************************************************************)
(* ClockSpec: the clock loop, its hand-off goroutines, one caller of Start *)
(* and Pause, and one consumer of the event channel.                       *)
(***************************************************************************)
ClockNext ==
    \/ StartBegin /\ UNCHANGED clockFrame
    \/ StartFinish /\ UNCHANGED clockFrame
    \/ PauseCall /\ UNCHANGED clockFrame
    \/ TickerFire /\ UNCHANGED clockFrame
    \/ \E k \in Loops : RunTick(k) /\ UNCHANGED clockFrame
    \/ \E k \in Loops : RunStop(k) /\ UNCHANGED clockFrame
    \/ \E k \in Loops : RunTeardownTicker(k) /\ UNCHANGED clockFrame
    \/ \E k \in Loops : RunTeardownChan(k) /\ UNCHANGED clockFrame
    \/ \E n \in TickIds : HandoffEval(n) /\ UNCHANGED clockFrame
    \/ \E n \in TickIds : ConsumerReceive(n) /\ UNCHANGED clockFrame
    \/ ConsumerAttach /\ UNCHANGED attachFrame

ClockSpec == Init /\ [][ClockNext]_vars

(***************************************************************************)
(* FairClockSpec: ClockSpec with the one scheduling guarantee the loop     *)
(* needs: the goroutine of run() is scheduled, and its select takes a case *)
(* when one is ready (which one is the runtime's choice).  Nothing is      *)
(* assumed of the callers of Start and Pause, of the ticker, of the        *)
(* hand-off goroutines, or of the consumer, which may never receive.       *)
(***************************************************************************)
ClockFairness ==
    \A k \in Loops : WF_vars((RunTick(k) \/ RunStop(k)) /\ UNCHANGED clockFrame)

FairClockSpec == Init /\ [][ClockNext]_vars /\ ClockFairness

(***************************************************************************)
(* Properties of the routes manager (checked under Spec).                  *)
(***************************************************************************)

\* the item of the first position of r that is neither its begin nor its end
\* signal (Nil when there is none)
FirstBodyItem(r) ==
    LET idx == {i \in 1..Len(Positions(r)) : ~IsBoundary(r, Positions(r)[i].ti)}
    IN  IF idx = {} THEN Nil
        ELSE Positions(r)[CHOOSE i \in idx : \A j \in idx : i <= j].ti

\* every position of r holds r, entered from that position's previous item
FullyActive(r) ==
    \A i \in 1..Len(Positions(r)) :
        /\ activeRoute[Positions(r)[i].ti] = r
        /\ activeRoutePreviousItem[Positions(r)[i].ti] = Positions(r)[i].prev

\* C1: two routes that share a non-boundary item and enter it from different
\* previous items are never both active at the same time.
C1_OpposingRoutesNeverBothActive ==
    \A r1 \in Routes, r2 \in Routes :
        \A ti \in BodyItems(r1) \cap BodyItems(r2) :
            (r1 # r2 /\ EntryOf(r1, ti) # EntryOf(r2, ti))
                => ~(routeActive[r1] /\ routeActive[r2])

\* C2: a track item and its ConflictItem never both hold an active route
\* belonging to two different routes.
C2_ConflictItemsNeverBothHeld ==
    \A ti \in Items :
        ConflictItem(ti) # Nil =>
            ~(/\ activeRoute[ti] # Nil
              /\ activeRoute[ConflictItem(ti)] # Nil
              /\ activeRoute[ti] # activeRoute[ConflictItem(ti)])

\* C3: CanActivate accepts every route that is already fully active on all
\* its positions, whatever the types of its items.
C3_ReactivationAccepted ==
    \A r \in Routes : FullyActive(r) => CanActivate(r)

\* C4: CanActivate rejects every route whose first non-boundary position is
\* a Points item that holds an active route different from that route.
C4_OccupiedFirstPointsRejected ==
    \A r \in Routes :
        (/\ FirstBodyItem(r) # Nil
         /\ Type(FirstBodyItem(r)) = "Points"
         /\ activeRoute[FirstBodyItem(r)] # Nil
         /\ activeRoute[FirstBodyItem(r)] # r)
            => ~CanActivate(r)

\* a route starting with the points is requested while another route holds
\* the points and a third route is active elsewhere
C4_Witness ==
    /\ activeRoute["P"] = "R3"
    /\ FirstBodyItem("R4") = "P"
    /\ ~CanActivate("R4")
    /\ routeActive["R1"]

\* C5: the deactivation of a route r resets the active route of exactly the
\* items on r's positions that hold r, and leaves the active route and the
\* previous item of every other item as they were; after it no item that r
\* touched and held is left reserved for r.
C5_DeactivationClearsOwnItemsOnly ==
    [][\A r \in Routes :
          (routeActive[r] /\ ~routeActive'[r]) =>
              \A ti \in Items :
                  IF ti \in RouteItems(r) /\ activeRoute[ti] = r
                      THEN activeRoute'[ti] = Nil
                      ELSE /\ activeRoute'[ti] = activeRoute[ti]
                           /\ activeRoutePreviousItem'[ti] = activeRoutePreviousItem[ti]
      ]_vars

\* R2 was activated over items of the active route R5 and deactivated again:
\* its own items are free, the items R5 still holds are untouched
C5_Witness ==
    /\ routeActive["R5"]
    /\ ~routeActive["R2"]
    /\ activeRoute["L1"] = "R5"
    /\ activeRoutePreviousItem["L1"] = "SA"
    /\ \A ti \in RouteItems("R2") : activeRoute[ti] = Nil

(***************************************************************************)
(* Properties of the simulation clock (checked under ClockSpec).           *)
(***************************************************************************)

\* C6: every clock event the consumer observes carries a time value strictly
\* greater than that of the event observed before it.
C6_ObservedTimesStrictlyIncrease ==
    \A i \in 1..Len(observed) :
        i > 1 => observed[i] > observed[i - 1]

\* no goroutine of the clock is left that can still take a step: every loop
\* has returned, the caller is idle, and every hand-off has completed or is
\* blocked in a send on a nil channel
ClockAtRest ==
    /\ ctlPc = "idle"
    /\ ~tickerOn
    /\ \A k \in Loops : runPc[k] \in {"none", "done"}
    /\ \A n \in TickIds :
           \/ handoff[n].st \in {"none", "delivered"}
           \/ handoff[n].st = "sending" /\ handoff[n].ch = 0

\* C7: each processed tick is delivered exactly once, also for ticks processed
\* shortly before a Pause: when the clock has come to rest after N processed
\* ticks, the consumer has received N events, one per tick.
C7_EveryTickDeliveredOnce ==
    ClockAtRest =>
        /\ Len(observed) = ticks
        /\ \A n \in TickIds : n <= ticks => handoff[n].st = "delivered"

\* C8: CurrentTime is the start time plus TIME_STEP times the number of
\* processed ticks, and it changes only in a step of the clock loop that
\* takes a due tick and advances it by exactly TIME_STEP.
C8_TimeIsStartPlusTicks ==
    /\ [](CurrentTime = startTime + ticks * TIME_STEP)
    /\ [][CurrentTime' # CurrentTime =>
              /\ Running
              /\ tickPending
              /\ ticks' = ticks + 1
              /\ CurrentTime' = CurrentTime + TIME_STEP]_vars

\* the clock was started and two ticks have been processed
C8_Witness ==
    /\ starts >= 1
    /\ ticks = 2
    /\ CurrentTime = startTime + 2 * TIME_STEP

\* C9: once a Pause call has returned and Start has not been called again,
\* CurrentTime is not advanced, no further tick is processed and no clock
\* event is created.
C9_NoTickAfterPause ==
    [][pausedSince =>
          /\ CurrentTime' = CurrentTime
          /\ ticks' = ticks
          /\ \A n \in TickIds : handoff[n].st = "none" => handoff'[n].st = "none"
      ]_vars

\* Pause returned after a processed tick while another tick was already due,
\* and the loop has returned without taking it
C9_Witness ==
    /\ pausedSince
    /\ ticks >= 1
    /\ tickPending
    /\ \E k \in Loops : runPc[k] = "done"

\* C10: a Start call made while the clock loop is running changes nothing: no
\* loop is spawned and ticker, stop channel and event channel are not replaced.
C10_StartWhileRunningIsNoOp ==
    [][(starts' # starts /\ Running) =>
          UNCHANGED <<clockTicker, stopChan, EventChan, tickerOn, tickPending,
                      runPc, ctlPc, CurrentTime, ticks, handoff>>
      ]_vars

\* Start has been called a second time while the loop of the first call was
\* running, after a tick
C10_Witness ==
    /\ starts = 2
    /\ runPc[1] = "select"
    /\ clockTicker = 1
    /\ EventChan = 1
    /\ ticks >= 1

\* C11: Pause closes the event channel: once the clock loop has ended after a
\* Pause, the channel the consumer obtained from it and receives from is
\* closed, so that the blocked consumer is released.
C11_PauseClosesEventChan ==
    \A k \in Loops :
        (runPc[k] = "done" /\ consChan = k /\ consLive) => k \in closedChans

\* C16: after a Pause call has returned, a Start call that has returned
\* restarts the simulation: once the paused loop's teardown is over, a clock
\* loop is running and delivers on the Simulation's event channel.
C16_StartAfterPauseRestarts ==
    (/\ starts >= 2
     /\ ~pausedSince
     /\ ctlPc = "idle"
     /\ \E k \in Loops : runPc[k] = "done"
     /\ \A k \in Loops : runPc[k] \notin {"stopping", "clearing"})
        => (Running /\ clockTicker # 0 /\ EventChan # 0)

\* the hand-offs spawned and not yet received by the consumer
Outstanding == {n \in TickIds : handoff[n].st \in {"spawned", "sending"}}

\* C18: at any time at most one clock-event hand-off is outstanding.
C18_AtMostOneOutstandingHandoff ==
    Cardinality(Outstanding) <= 1

\* C20: every call to Pause eventually returns: a pending Pause call always
\* has a clock loop that receives from the channel it sends on (no loop is
\* spawned while the caller is blocked in Pause).
C20_PendingPauseIsTaken ==
    ctlPc = "pausing" =>
        /\ pauseChan # 0
        /\ \E k \in Loops : runPc[k] = "select" /\ stopChan = pauseChan

\* C17: a consumer that does not drain never stalls the clock loop: while the
\* loop is running a due tick is eventually processed (unless the loop takes
\* a stop request first), and a stop request is eventually taken, however
\* many earlier events are undelivered.
C17_LoopNeverStalled ==
    /\ (Running /\ tickPending) ~> (~tickPending \/ ~Running)
    /\ (ctlPc = "pausing" /\ Running /\ pauseChan = stopChan) ~> (ctlPc = "idle")

\* two ticks were processed and the stop request was taken while the events
\* of both ticks were still undelivered
C17_Witness ==
    /\ ticks = 2
    /\ Cardinality(Outstanding) = 2
    /\ observed = <<>>
    /\ pausedSince

\* C14: CanDeactivate returns true for every route in every state of the
\* track items, whether the route is active or not.
C14_CanDeactivateAlwaysTrue == \A r \in Routes : CanDeactivate(r)

\* an active route, an inactive route, and a route that is active while
\* another route holds one of its items: all three may be deactivated
C14_Witness ==
    \E r, q, o \in Routes :
        /\ routeActive[r] /\ CanDeactivate(r)
        /\ ~routeActive[q] /\ CanDeactivate(q)
        /\ routeActive[o] /\ CanDeactivate(o)
        /\ \E ti \in BodyItems(o) : activeRoute[ti] \notin {Nil, o}

(***************************************************************************)
(* The reference decision procedure for one position: the rules in order,  *)
(* each a condition and an outcome; the first rule whose condition holds   *)
(* decides.                                                                *)
(***************************************************************************)
RefRules(r, pos, flag) ==
    LET ti == pos.ti
    IN  << [when |-> IsBoundary(r, ti),                               then |-> "continue"],
           [when |-> /\ ConflictItem(ti) # Nil
                     /\ activeRoute[ConflictItem(ti)] # Nil,          then |-> "reject"],
           [when |-> activeRoute[ti] = Nil /\ flag,                   then |-> "reject"],
           [when |-> activeRoute[ti] = Nil,                           then |-> "continue"],
           [when |-> Type(ti) = "Points" /\ ~flag,                    then |-> "reject"],
           [when |-> pos.prev # activeRoutePreviousItem[ti],          then |-> "reject"],
           [when |-> activeRoute[ti] = r,                             then |-> "accept"],
           [when |-> TRUE,                                            then |-> "setflag"] >>

RefOutcome(r, pos, flag) ==
    LET rules == RefRules(r, pos, flag)
        first == CHOOSE i \in 1..Len(rules) :
                     rules[i].when /\ \A j \in 1..(i - 1) : ~rules[j].when
    IN  rules[first].then

\* the state of the walk after the first i positions of route r
RefWalk(r) ==
    LET walk[i \in 0..Len(Positions(r))] ==
            IF i = 0 THEN [v |-> "walking", flag |-> FALSE]
            ELSE LET before == walk[i - 1]
                     out    == RefOutcome(r, Positions(r)[i], before.flag)
                 IN  IF before.v # "walking" THEN before
                     ELSE IF out = "reject" THEN [before EXCEPT !.v = "reject"]
                     ELSE IF out = "accept" THEN [before EXCEPT !.v = "accept"]
                     ELSE IF out = "setflag" THEN [before EXCEPT !.flag = TRUE]
                     ELSE before
    IN  walk[Len(Positions(r))]

\* accept when a rule accepts or the walk completes
RefCanActivate(r) == RefWalk(r).v # "reject"

\* C15: for every route and every state of the track items a call of
\* CanActivate returns the decision of the reference decision procedure, and the
\* call changes no item and no route state.
C15_CanActivateIsReferenceProcedure ==
    [][\A r \in Routes :
           (lastCall' # lastCall /\ lastCall'.route = r)
               => /\ lastCall'.ok = RefCanActivate(r)
                  /\ UNCHANGED routeVars]_vars

\* calls accepted with the continuation flag set, rejected at occupied points
\* met first, and accepted at once for the same route
C15_Witness ==
    /\ lastCall.route # Nil
    /\ lastCall.ok = CanActivate(lastCall.route)
    /\ lastCall.ok
    /\ RefWalk(lastCall.route).flag
    /\ \E q \in Routes : ~CanActivate(q) /\ \E ti \in BodyItems(q) :
           Type(ti) = "Points" /\ activeRoute[ti] # Nil
    /\ \E o \in Routes : RefWalk(o).v = "accept"

\* C12: after setActiveRoute on a signal, resetNextActiveRoute or
\* resetPreviousActiveRoute, the signal's activeAspect is defined (not nil).
C12_AspectDefinedAfterRouteChange ==
    sigOp.op # "none" => activeAspect[sigOp.si] # Nil

\* C13: MeansProceed returns true if and only if the aspect has no actions, or
\* its first action has nonzero speed, or its first action's target is
\* BeforeNextSignal; only the first action matters.
C13_MeansProceedByFirstAction ==
    called =>
        /\ proceed = (\/ actions = <<>>
                      \/ (actions # <<>> /\ Head(actions).Speed # 0)
                      \/ (actions # <<>> /\ Head(actions).Target = BeforeNextSignal))
        /\ actions = <<>> => proceed
        /\ (/\ actions # <<>>
            /\ Head(actions).Speed = 0
            /\ Head(actions).Target = BeforeThisSignal) => ~proceed
        /\ (actions # <<>> /\ Head(actions).Target = BeforeNextSignal) => proceed

\* a stop aspect whose second action alone would mean proceed
C13_Witness ==
    /\ called
    /\ ~proceed
    /\ Len(actions) = 2
    /\ actions[1] = [Target |-> BeforeThisSignal, Speed |-> 0]
    /\ actions[2] = [Target |-> BeforeNextSignal, Speed |-> 80]

\* C19: resetNextActiveRoute(r) leaves nextActiveRoute unchanged when r is not
\* nil and nextActiveRoute is set to a route with another ID, and otherwise
\* sets it to nil; resetPreviousActiveRoute does the same on
\* previousActiveRoute; neither changes the other field, another signal's
\* fields, or the active route of any item.
C19_MismatchedResetIsNoOp ==
    [][\A si \in SignalItems, r \in Routes \cup {Nil} :
           LET others == SignalItems \ {si}
           IN  /\ ResetNextActiveRoute(si, r) =>
                     /\ nextActiveRoute'[si] =
                            (IF /\ r # Nil
                                /\ nextActiveRoute[si] \in Routes \ {r}
                             THEN nextActiveRoute[si] ELSE Nil)
                     /\ \A o \in others : nextActiveRoute'[o] = nextActiveRoute[o]
                     /\ previousActiveRoute' = previousActiveRoute
                     /\ activeRoute' = activeRoute
                     /\ activeRoutePreviousItem' = activeRoutePreviousItem
               /\ ResetPreviousActiveRoute(si, r) =>
                     /\ previousActiveRoute'[si] =
                            (IF /\ r # Nil
                                /\ previousActiveRoute[si] \in Routes \ {r}
                             THEN previousActiveRoute[si] ELSE Nil)
                     /\ \A o \in others : previousActiveRoute'[o] = previousActiveRoute[o]
                     /\ nextActiveRoute' = nextActiveRoute
                     /\ activeRoute' = activeRoute
                     /\ activeRoutePreviousItem' = activeRoutePreviousItem]_vars

\* a mismatched reset has left the next active route of a signal in place,
\* with the signal's other fields set as well
C19_Witness ==
    /\ sigOp.op = "resetNext"
    /\ sigOp.mismatch
    /\ nextActiveRoute[sigOp.si] # Nil
    /\ previousActiveRoute[sigOp.si] # Nil
    /\ activeRoute[sigOp.si] # Nil

=============================================================================
